---- MODULE Spec2Model ----
(***************************************************************************)
(* TPM_System: the shift-aware due-date scheduler of app.py.               *)
(*                                                                         *)
(* An instant (a Python datetime) is an integer number of seconds counted  *)
(* from 00:00:00 of a Monday, so that date(), time(), weekday(),           *)
(* timedelta(days=n) and replace(hour, minute, second=0) are arithmetic.   *)
(* datetime.now() is read at whole seconds: every value the code compares  *)
(* it with (a parsed completion stamp, a candidate with second=0) is a     *)
(* whole second, so sub-second digits decide nothing a whole second later  *)
(* does not decide as well.                                                *)
(***************************************************************************)
EXTENDS Integers, Sequences, FiniteSets, TLC

VARIABLES
    now,             \* the wall clock read by datetime.now()
    shift_config,    \* table shift_config: its rows, keyed by shift_name
    task,            \* one row of table tasks
    last_completed,  \* MAX(task_completions.completed_at) of that task
    pc,              \* position of the task-listing request
    next_due,        \* result of calculate_next_due inside the request
    shift_row,       \* the shift row calculate_next_due fetched for it
    resp,            \* the response of the last handler that answered
    m_args,          \* arguments handed to the period matcher
    m_out,           \* results of the period matcher
    previous_status  \* the status the listing before this one showed

vars == <<now, shift_config, task, last_completed, pc, next_due, shift_row, resp,
          m_args, m_out, previous_status>>

-----------------------------------------------------------------------------
(* Calendar arithmetic of datetime / timedelta                              *)

\* the units of datetime: seconds in an hour, a minute and a day
SecondsPerHour == 60 * 60

SecondsPerMinute == SecondsPerHour \div 60

SecondsPerDay == 24 * SecondsPerHour

\* timedelta(days=n)
Days(n) == n * SecondsPerDay

\* dt.date(), as a day number
DateOf(dt) == dt \div SecondsPerDay

\* dt.time(), as seconds since midnight
TimeOf(dt) == dt % SecondsPerDay

\* dt.weekday(): 0 = Monday ... 6 = Sunday
WeekdayOf(dt) == DateOf(dt) % 7

\* dt.replace(hour=t.hour, minute=t.minute, second=0, microsecond=0),
\* t a time of day in seconds
ReplaceTime(dt, t) ==
    Days(DateOf(dt)) + (t \div SecondsPerMinute) * SecondsPerMinute

\* dt.strftime('%a')
DayNames == <<"Mon", "Tue", "Wed", "Thu", "Fri", "Sat", "Sun">>

DayNameOf(dt) == DayNames[WeekdayOf(dt) + 1]

\* WEEK_IDX
WEEK_IDX == [d \in {DayNames[i] : i \in 1..7} |->
                (CHOOSE i \in 1..7 : DayNames[i] = d) - 1]

SeqMin(s) == CHOOSE x \in {s[i] : i \in 1..Len(s)} :
                \A j \in 1..Len(s) : x <= s[j]

SeqMax(s) == CHOOSE x \in {s[i] : i \in 1..Len(s)} :
                \A j \in 1..Len(s) : x >= s[j]

SeqToSet(s) == {s[i] : i \in 1..Len(s)}

-----------------------------------------------------------------------------
(* Results of calls that may raise                                          *)

Raise == [raised |-> TRUE, value |-> 0]

Return(v) == [raised |-> FALSE, value |-> v]

-----------------------------------------------------------------------------
(* Text columns and their parsers                                          *)
(*                                                                         *)
(* A completion stamp "YYYY-MM-DD HH:MM:SS" is the record of its fields,   *)
(* ss = -1 when the text stops at the minutes ("YYYY-MM-DD HH:MM"); text   *)
(* in any other shape is kind "other".  A time column "HH:MM" is the       *)
(* sequence of the numbers between its colons.  An active_days column is   *)
(* the sequence of the names between its commas.                           *)

NoCompletion == [kind |-> "none", day |-> 0, hh |-> 0, mm |-> 0, ss |-> 0]

Unparseable == [kind |-> "other", day |-> 0, hh |-> 0, mm |-> 0, ss |-> 0]

\* the text SQLite's CURRENT_TIMESTAMP / strftime('%Y-%m-%d %H:%M:%S') writes
FormatSeconds(dt) ==
    [kind |-> "stamp", day |-> DateOf(dt),
     hh |-> TimeOf(dt) \div SecondsPerHour,
     mm |-> (TimeOf(dt) % SecondsPerHour) \div SecondsPerMinute,
     ss |-> TimeOf(dt) % SecondsPerMinute]

\* strftime('%Y-%m-%d %H:%M')
FormatMinutes(dt) == [FormatSeconds(dt) EXCEPT !.ss = -1]

\* Python truthiness of a nullable text column
Truthy(text) == text.kind # "none"

\* datetime.strptime(str(s), '%Y-%m-%d %H:%M:%S')
StrptimeSeconds(s) ==
    IF s.kind = "stamp" /\ s.ss >= 0
    THEN Return(Days(s.day) + s.hh * SecondsPerHour + s.mm * SecondsPerMinute + s.ss)
    ELSE Raise

\* datetime.strptime(str(s), '%Y-%m-%d %H:%M')
StrptimeMinutes(s) ==
    IF s.kind = "stamp" /\ s.ss < 0
    THEN Return(Days(s.day) + s.hh * SecondsPerHour + s.mm * SecondsPerMinute)
    ELSE Raise

\* the nested try/except of lines 266-272, 371-377 and 389-395:
\* seconds format first, minutes format second, Raise when both fail
ParseCompleted(s) ==
    IF ~StrptimeSeconds(s).raised THEN StrptimeSeconds(s)
    ELSE StrptimeMinutes(s)

\* datetime.strptime(text, '%H:%M').time()
StrptimeHM(text) ==
    IF Len(text) = 2 /\ text[1] \in 0..23 /\ text[2] \in 0..59
    THEN Return(text[1] * SecondsPerHour + text[2] * SecondsPerMinute)
    ELSE Raise

\* text.split(','): the empty text splits into one empty name
SplitComma(text) == IF text = <<>> THEN <<"">> ELSE text

\* [WEEK_IDX[d] for d in text.split(',')]: KeyError on an unknown name
WeekIdxList(text) ==
    LET names == SplitComma(text)
    IN  IF \A i \in 1..Len(names) : names[i] \in DOMAIN WEEK_IDX
        THEN Return([i \in 1..Len(names) |-> WEEK_IDX[names[i]]])
        ELSE Raise

-----------------------------------------------------------------------------
(* Table shift_config                                                       *)

ShiftRow(name, start, end, days, order, act) ==
    [shift_name |-> name, start_time |-> start, end_time |-> end,
     active_days |-> days, display_order |-> order, active |-> act]

\* the rows init_db inserts into an empty table
default_shifts ==
    { ShiftRow("A", <<4, 30>>, <<15, 30>>, <<"Mon", "Tue", "Wed", "Thu">>, 1, 1),
      ShiftRow("B", <<16, 30>>, <<3, 30>>, <<"Mon", "Tue", "Wed", "Thu">>, 2, 1),
      ShiftRow("C", <<5, 0>>, <<17, 0>>, <<"Fri", "Sat", "Sun">>, 3, 1),
      ShiftRow("D", <<17, 0>>, <<5, 0>>, <<"Fri", "Sat", "Sun">>, 4, 1) }

\* a query that selects on active = 1 alone
ActiveRows_any_name(cfg, name) == {r \in cfg : r.active = 1}

\* SELECT * FROM shift_config WHERE shift_name = ? AND active = 1 (fetchone);
\* shift_name is UNIQUE, so at most one row answers
ActiveRows(cfg, name) == {r \in cfg : r.shift_name = name /\ r.active = 1}

HasShiftRow(cfg, name) == ActiveRows(cfg, name) # {}

GetShiftRow(cfg, name) == CHOOSE r \in ActiveRows(cfg, name) : TRUE

\* shift_row = None
NoShiftRow == ShiftRow("", <<>>, <<>>, <<>>, 0, 0)

\* lines 275-282 and 415-422: the row fetched for an assigned shift, None
\* when no shift is assigned or no active row carries the name
FetchShiftRow(cfg, assigned_shift) ==
    IF assigned_shift # "" /\ HasShiftRow(cfg, assigned_shift)
    THEN GetShiftRow(cfg, assigned_shift)
    ELSE NoShiftRow

-----------------------------------------------------------------------------
(* calculate_next_due                                                       *)

\* a reference that is left unset when neither format parses
ReferenceTime_no_fallback(clock, completed) ==
    IF Truthy(completed) THEN ParseCompleted(completed).value ELSE clock

\* a reference that moves with the clock whatever was completed
ReferenceTime_from_clock(clock, completed) == clock

\* lines 263-272: the completion instant when it parses, otherwise now
ReferenceTime(clock, completed) ==
    IF Truthy(completed) /\ ~ParseCompleted(completed).raised
    THEN ParseCompleted(completed).value
    ELSE clock

\* lines 290-293: the schedule used when no shift row is found
NoShiftSchedule ==
    [shift_days |-> [i \in 1..7 |-> i - 1], first_day |-> 0, last_day |-> 6,
     start_time |-> StrptimeHM(<<0, 0>>).value,
     end_time |-> StrptimeHM(<<0, 0>>).value]

\* a schedule whose last day is the last name listed, not the greatest
RowSchedule_last_listed(row) ==
    LET days == WeekIdxList(row.active_days)
        st == StrptimeHM(row.start_time)
        en == StrptimeHM(row.end_time)
    IN  IF days.raised \/ st.raised \/ en.raised THEN Raise
        ELSE Return([shift_days |-> days.value,
                     first_day |-> SeqMin(days.value),
                     last_day |-> days.value[Len(days.value)],
                     start_time |-> st.value, end_time |-> en.value])

\* lines 284-289: the schedule read from a shift row; raises KeyError on an
\* unknown day name and ValueError on a malformed time
RowSchedule(row) ==
    LET days == WeekIdxList(row.active_days)
        st == StrptimeHM(row.start_time)
        en == StrptimeHM(row.end_time)
    IN  IF days.raised \/ st.raised \/ en.raised THEN Raise
        ELSE Return([shift_days |-> days.value,
                     first_day |-> SeqMin(days.value),
                     last_day |-> SeqMax(days.value),
                     start_time |-> st.value, end_time |-> en.value])

\* a lookup that leaves out "AND active = 1"
ResolveSchedule_inactive_rows(cfg, assigned_shift) ==
    IF assigned_shift # "" /\ \E r \in cfg : r.shift_name = assigned_shift
    THEN RowSchedule(CHOOSE r \in cfg : r.shift_name = assigned_shift)
    ELSE Return(NoShiftSchedule)

\* lines 274-293
ResolveSchedule(cfg, assigned_shift) ==
    IF assigned_shift # "" /\ HasShiftRow(cfg, assigned_shift)
    THEN RowSchedule(GetShiftRow(cfg, assigned_shift))
    ELSE Return(NoShiftSchedule)

\* a loop over range(0, 8), which looks at the reference day itself first
ScanHits_from_today(ref, shift_days, t) ==
    {i \in 0..7 : /\ (WeekdayOf(ref) + i) % 7 \in SeqToSet(shift_days)
                  /\ ReplaceTime(ref + Days(i), t) > ref}

\* a scan over range(1, 7)
ScanHits_six_offsets(ref, shift_days, t) ==
    {i \in 1..6 : /\ (WeekdayOf(ref) + i) % 7 \in SeqToSet(shift_days)
                  /\ ReplaceTime(ref + Days(i), t) > ref}

\* lines 300-308 and 337-344: the offsets i of range(1, 8) at which the loop
\* returns, t being start_time or end_time
ScanHits(ref, shift_days, t) ==
    {i \in 1..7 : /\ (WeekdayOf(ref) + i) % 7 \in SeqToSet(shift_days)
                  /\ ReplaceTime(ref + Days(i), t) > ref}

\* lines 310-316 and 346-352: the code after the loop, d being first_day
\* (start_shift_daily) or shift_days[0] (end_shift_daily)
ScanFallback(ref, d, t) ==
    LET days_until_first == (d - WeekdayOf(ref)) % 7
    IN  ReplaceTime(ref + Days(IF days_until_first = 0 THEN 7 ELSE days_until_first), t)

\* the loop followed by its fallback
DailyDue(ref, shift_days, d, t) ==
    LET hits == ScanHits(ref, shift_days, t)
    IN  IF hits # {}
        THEN ReplaceTime(ref + Days(CHOOSE i \in hits : \A j \in hits : i <= j), t)
        ELSE ScanFallback(ref, d, t)

\* a weekly branch that steps a week on only when the candidate is earlier
NotAfter_strict(candidate, ref) == candidate < ref

\* lines 328 and 363: candidate <= reference_time
NotAfter(candidate, ref) == candidate <= ref

\* a weekly branch that takes 0 days until the weekday for a whole week
WeeklyDue_whole_week(ref, d, t) ==
    LET days_until == (d - WeekdayOf(ref)) % 7
    IN  ReplaceTime(ref + Days(IF days_until = 0 THEN 7 ELSE days_until), t)

\* lines 319-332 and 355-367, d being first_day or last_day
WeeklyDue(ref, d, t) ==
    LET candidate == ReplaceTime(ref + Days((d - WeekdayOf(ref)) % 7), t)
    IN  IF NotAfter(candidate, ref) THEN candidate + Days(7) ELSE candidate

\* lines 369-380: interval_days or 1
LegacyDue(clock, completed, interval_days) ==
    IF Truthy(completed)
    THEN (IF ParseCompleted(completed).raised THEN clock
          ELSE ParseCompleted(completed).value)
         + Days(IF interval_days = 0 THEN 1 ELSE interval_days)
    ELSE clock

\* lines 259-380
calculate_next_due(clock, cfg, completed, interval_days, interval_type, assigned_shift) ==
    LET ref == ReferenceTime(clock, completed)
        sched == ResolveSchedule(cfg, assigned_shift)
        s == sched.value
    IN  IF sched.raised THEN Raise
        ELSE CASE interval_type = "start_shift_daily" ->
                    Return(DailyDue(ref, s.shift_days, s.first_day, s.start_time))
               [] interval_type = "start_shift_weekly" ->
                    Return(WeeklyDue(ref, s.first_day, s.start_time))
               [] interval_type = "end_shift_daily" ->
                    Return(DailyDue(ref, s.shift_days, s.shift_days[1], s.end_time))
               [] interval_type = "end_shift_weekly" ->
                    Return(WeeklyDue(ref, s.last_day, s.end_time))
               [] OTHER ->
                    Return(LegacyDue(clock, completed, interval_days))

\* lines 278-281: fetchone() hands over one of the rows the query selects,
\* whichever SQLite meets first; these are the results of the call, one for
\* each row it may be handed
calculate_next_due_results(clock, cfg, completed, interval_days, interval_type, assigned_shift) ==
    IF assigned_shift # "" /\ HasShiftRow(cfg, assigned_shift)
    THEN {calculate_next_due(clock, {r}, completed, interval_days, interval_type,
              assigned_shift) : r \in ActiveRows(cfg, assigned_shift)}
    ELSE {calculate_next_due(clock, cfg, completed, interval_days, interval_type,
              assigned_shift)}

-----------------------------------------------------------------------------
(* OccurrencePeriodMatcher: is_same_shift_occurrence, is_same_shift_week    *)

\* None and a date, as get_shift_date_for_time returns them
NoDate == [none |-> TRUE, date |-> 0]

ShiftDate(d) == [none |-> FALSE, date |-> d]

\* a shift date that keeps the weekday only
get_shift_date_for_time_weekday(dt, shift_days, start_time, end_time) ==
    IF WeekdayOf(dt) \notin SeqToSet(shift_days) THEN NoDate
    ELSE IF end_time < start_time
         THEN (IF TimeOf(dt) >= start_time THEN ShiftDate(WeekdayOf(dt))
               ELSE ShiftDate(WeekdayOf(dt - Days(1))))
         ELSE (IF start_time <= TimeOf(dt) /\ TimeOf(dt) < end_time
               THEN ShiftDate(WeekdayOf(dt)) ELSE NoDate)

\* lines 445-465
get_shift_date_for_time(dt, shift_days, start_time, end_time) ==
    IF WeekdayOf(dt) \notin SeqToSet(shift_days) THEN NoDate
    ELSE IF end_time < start_time
         THEN (IF TimeOf(dt) >= start_time THEN ShiftDate(DateOf(dt))
               ELSE ShiftDate(DateOf(dt - Days(1))))
         ELSE (IF start_time <= TimeOf(dt) /\ TimeOf(dt) < end_time
               THEN ShiftDate(DateOf(dt)) ELSE NoDate)

\* lines 442-472
is_same_shift_occurrence(completion_time, current_time, shift_days, start_time, end_time) ==
    LET completion_shift_date ==
            get_shift_date_for_time(completion_time, shift_days, start_time, end_time)
        current_shift_date ==
            get_shift_date_for_time(current_time, shift_days, start_time, end_time)
    IN  /\ ~completion_shift_date.none
        /\ ~current_shift_date.none
        /\ completion_shift_date = current_shift_date

\* a week start without the step back for the overnight tail
get_shift_week_start_no_tail(dt, shift_days, start_time, end_time) ==
    DateOf(dt - Days((WeekdayOf(dt) - SeqMin(shift_days)) % 7))

\* a week start that steps back before start_time on every weekday
get_shift_week_start_tail_any_day(dt, shift_days, start_time, end_time) ==
    LET first_shift_day == SeqMin(shift_days)
        days_since_first == (WeekdayOf(dt) - first_shift_day) % 7
        week_start == dt - Days(days_since_first)
    IN  IF end_time < start_time /\ TimeOf(dt) < start_time
        THEN DateOf(week_start - Days(7))
        ELSE DateOf(week_start)

\* lines 477-491
get_shift_week_start(dt, shift_days, start_time, end_time) ==
    LET first_shift_day == SeqMin(shift_days)
        days_since_first == (WeekdayOf(dt) - first_shift_day) % 7
        week_start == dt - Days(days_since_first)
    IN  IF /\ WeekdayOf(dt) = first_shift_day
           /\ end_time < start_time
           /\ TimeOf(dt) < start_time
        THEN DateOf(week_start - Days(7))
        ELSE DateOf(week_start)

\* lines 474-496
is_same_shift_week(completion_time, current_time, shift_days, start_time, end_time) ==
    get_shift_week_start(completion_time, shift_days, start_time, end_time)
        = get_shift_week_start(current_time, shift_days, start_time, end_time)

-----------------------------------------------------------------------------
(* get_task_status                                                          *)

\* 'daily' in interval_type / 'weekly' in interval_type (substring tests)
ContainsDaily(interval_type) ==
    interval_type \in {"start_shift_daily", "end_shift_daily", "daily"}

ContainsWeekly(interval_type) ==
    interval_type \in {"start_shift_weekly", "end_shift_weekly", "weekly"}

\* a check without the date comparison of lines 424-426
is_completed_in_current_shift_period_no_fallback(clock, cfg, completion_time, interval_type, assigned_shift) ==
    IF ~(assigned_shift # "" /\ HasShiftRow(cfg, assigned_shift))
    THEN Return(FALSE)
    ELSE LET row == GetShiftRow(cfg, assigned_shift)
             days == WeekIdxList(row.active_days)
             st == StrptimeHM(row.start_time)
             en == StrptimeHM(row.end_time)
         IN  IF days.raised \/ st.raised \/ en.raised THEN Raise
             ELSE IF ContainsDaily(interval_type)
                  THEN Return(is_same_shift_occurrence(completion_time, clock,
                                  days.value, st.value, en.value))
             ELSE IF ContainsWeekly(interval_type)
                  THEN Return(is_same_shift_week(completion_time, clock,
                                  days.value, st.value, en.value))
             ELSE Return(FALSE)

\* a check that compares shift weeks for the daily types too
is_completed_in_current_shift_period_by_week(clock, cfg, completion_time, interval_type, assigned_shift) ==
    IF ~(assigned_shift # "" /\ HasShiftRow(cfg, assigned_shift))
    THEN Return(DateOf(completion_time) = DateOf(clock))
    ELSE LET row == GetShiftRow(cfg, assigned_shift)
             days == WeekIdxList(row.active_days)
             st == StrptimeHM(row.start_time)
             en == StrptimeHM(row.end_time)
         IN  IF days.raised \/ st.raised \/ en.raised THEN Raise
             ELSE IF ContainsDaily(interval_type) \/ ContainsWeekly(interval_type)
                  THEN Return(is_same_shift_week(completion_time, clock,
                                  days.value, st.value, en.value))
             ELSE Return(FALSE)

\* lines 410-440
is_completed_in_current_shift_period(clock, cfg, completion_time, interval_type, assigned_shift) ==
    IF ~(assigned_shift # "" /\ HasShiftRow(cfg, assigned_shift))
    THEN Return(DateOf(completion_time) = DateOf(clock))
    ELSE LET row == GetShiftRow(cfg, assigned_shift)
             days == WeekIdxList(row.active_days)
             st == StrptimeHM(row.start_time)
             en == StrptimeHM(row.end_time)
         IN  IF days.raised \/ st.raised \/ en.raised THEN Raise
             ELSE IF ContainsDaily(interval_type)
                  THEN Return(is_same_shift_occurrence(completion_time, clock,
                                  days.value, st.value, en.value))
             ELSE IF ContainsWeekly(interval_type)
                  THEN Return(is_same_shift_week(completion_time, clock,
                                  days.value, st.value, en.value))
             ELSE Return(FALSE)

\* a status test that calls the due instant itself overdue
StandardStatus_at_due(clock, due) ==
    IF clock >= due THEN "overdue"
    ELSE IF (due - clock) \div SecondsPerDay < 1 THEN "due"
    ELSE "upcoming"

\* lines 402-408: (next_due - now).days is the whole days of a difference
\* that is not negative here
StandardStatus(clock, due) ==
    IF clock > due THEN "overdue"
    ELSE IF (due - clock) \div SecondsPerDay < 1 THEN "due"
    ELSE "upcoming"

\* a status that runs the completion check for tasks without a shift too
get_task_status_any_shift(clock, cfg, due, completed, interval_type, assigned_shift) ==
    LET checked == Truthy(completed) /\ interval_type # ""
                   /\ ~ParseCompleted(completed).raised
        done == is_completed_in_current_shift_period(clock, cfg,
                    ParseCompleted(completed).value, interval_type, assigned_shift)
    IN  IF checked /\ done.raised THEN Raise
        ELSE IF checked /\ done.value THEN Return("completed")
        ELSE Return(StandardStatus(clock, due))

\* lines 383-408
get_task_status(clock, cfg, due, completed, interval_type, assigned_shift) ==
    LET checked == Truthy(completed) /\ interval_type # "" /\ assigned_shift # ""
                   /\ ~ParseCompleted(completed).raised
        done == is_completed_in_current_shift_period(clock, cfg,
                    ParseCompleted(completed).value, interval_type, assigned_shift)
    IN  IF checked /\ done.raised THEN Raise
        ELSE IF checked /\ done.value THEN Return("completed")
        ELSE Return(StandardStatus(clock, due))
-----------------------------------------------------------------------------
(* get_active_shift                                                         *)

\* lines 1000-1002: now.hour * 60 + now.minute
MinutesOfDay(dt) == TimeOf(dt) \div SecondsPerMinute

\* lines 1029-1036: int(parts[0]) * 60 + int(parts[1]); a text with fewer
\* than two parts raises inside the try and the shift is skipped
MinutesOfText(text) ==
    IF Len(text) >= 2 THEN Return(text[1] * 60 + text[2]) ELSE Raise

\* a loop that does not look at the weekday
ShiftMatches_any_day(row, clock) ==
    LET start_minutes == MinutesOfText(row.start_time)
        end_minutes == MinutesOfText(row.end_time)
        current_minutes == MinutesOfDay(clock)
    IN  /\ ~start_minutes.raised
        /\ ~end_minutes.raised
        /\ IF end_minutes.value > start_minutes.value
           THEN start_minutes.value <= current_minutes
                /\ current_minutes < end_minutes.value
           ELSE current_minutes >= start_minutes.value
                \/ current_minutes < end_minutes.value

\* lines 1024-1048: the test one row of the loop makes
ShiftMatches(row, clock) ==
    LET start_minutes == MinutesOfText(row.start_time)
        end_minutes == MinutesOfText(row.end_time)
        current_minutes == MinutesOfDay(clock)
    IN  /\ DayNameOf(clock) \in SeqToSet(SplitComma(row.active_days))
        /\ ~start_minutes.raised
        /\ ~end_minutes.raised
        /\ IF end_minutes.value > start_minutes.value
           THEN start_minutes.value <= current_minutes
                /\ current_minutes < end_minutes.value
           ELSE current_minutes >= start_minutes.value
                \/ current_minutes < end_minutes.value

\* lines 1006-1011: the rows with active = 1
ActiveShifts(cfg) == {r \in cfg : r.active = 1}

\* a loop that keeps the last matching row: no break
FirstMatches_no_break(cfg, clock) ==
    {r \in ActiveShifts(cfg) :
        /\ ShiftMatches(r, clock)
        /\ \A q \in ActiveShifts(cfg) :
              ShiftMatches(q, clock) => r.display_order >= q.display_order}

\* ORDER BY display_order followed by the loop's break: a matching row that
\* no other matching row precedes in display order (rows of equal
\* display_order come in an order SQLite does not fix)
FirstMatches(cfg, clock) ==
    {r \in ActiveShifts(cfg) :
        /\ ShiftMatches(r, clock)
        /\ \A q \in ActiveShifts(cfg) :
              ShiftMatches(q, clock) => r.display_order <= q.display_order}

NoNote == ""

ActiveShiftResponse(shift, note) ==
    [handler |-> "get_active_shift", listed |-> FALSE, next_due |-> 0,
     status |-> "success", shift |-> shift, note |-> note]

\* lines 1014-1020
NoShiftsResponse == ActiveShiftResponse("A", "No shifts configured")

\* lines 1057-1064
NoMatchResponse == ActiveShiftResponse("A", "No shift matched current time")

\* lines 1050-1056
MatchedResponse(shift) == ActiveShiftResponse(shift, NoNote)

\* lines 995-1064: the responses the handler can give
get_active_shift_responses(clock, cfg) ==
    IF ActiveShifts(cfg) = {} THEN {NoShiftsResponse}
    ELSE IF FirstMatches(cfg, clock) = {} THEN {NoMatchResponse}
    ELSE {MatchedResponse(r.shift_name) : r \in FirstMatches(cfg, clock)}
-----------------------------------------------------------------------------
(* The states the claims are checked on                                     *)

\* days 0..MaxDay are the dates the clock is read on
MaxDay == 8

\* days 0..MaxCompletionDay are the dates a stored completion carries
MaxCompletionDay == 6

HMS(h, m, s) == h * SecondsPerHour + m * SecondsPerMinute + s

\* times of day: midnight, the boundaries of shifts A and B with and without
\* seconds past the minute, times inside and outside the windows of A, B, D
ClockTimes ==
    {HMS(0, 0, 0), HMS(2, 0, 0), HMS(4, 30, 0), HMS(4, 30, 30), HMS(10, 0, 0),
     HMS(16, 30, 0), HMS(20, 0, 0), HMS(23, 59, 59)}

Clocks == {Days(d) + t : d \in 0..MaxDay, t \in ClockTimes}

Completions ==
    {NoCompletion, Unparseable}
        \cup {FormatSeconds(Days(d) + t) : d \in 0..MaxCompletionDay, t \in ClockTimes}
        \cup {FormatMinutes(Days(0) + t) : t \in ClockTimes}

\* values of tasks.assigned_shift: none, the default shifts A, B, D and a
\* name no shift row carries
AssignedShifts == {"", "A", "B", "D", "X"}

TaskRow(type, days, shift) ==
    [interval_type |-> type, interval_days |-> days, assigned_shift |-> shift]

Tasks ==
    {TaskRow(ty, 1, sh) : ty \in {"start_shift_daily", "end_shift_daily"},
                          sh \in AssignedShifts}
        \cup {TaskRow(ty, 7, sh) : ty \in {"start_shift_weekly", "end_shift_weekly"},
                                   sh \in AssignedShifts}
        \cup {TaskRow("monthly", d, sh) : d \in {0, 3}, sh \in AssignedShifts}

NoResponse ==
    [handler |-> "none", listed |-> FALSE, next_due |-> 0,
     status |-> "", shift |-> "", note |-> NoNote]

\* lines 654-657: the task is left out of the listing
DroppedResponse ==
    [handler |-> "get_tasks", listed |-> FALSE, next_due |-> 0,
     status |-> "", shift |-> "", note |-> NoNote]

\* lines 642-653: the task is listed with its due instant and status
ListedResponse(due, status) ==
    [handler |-> "get_tasks", listed |-> TRUE, next_due |-> due,
     status |-> status, shift |-> "", note |-> NoNote]

NoMatcherArgs ==
    [completion_time |-> 0, current_time |-> 0, shift_days |-> <<0>>,
     start_time |-> 0, end_time |-> 0]

\* no listing has shown the task yet
NoStatus == ""

NoMatcherOut ==
    [called |-> FALSE, same_occurrence |-> FALSE, same_week |-> FALSE,
     completion_week_start |-> 0, current_week_start |-> 0]

-----------------------------------------------------------------------------
(* The task listing on a stored database with the default shifts           *)

Init ==
    /\ now \in Clocks
    /\ shift_config = default_shifts
    /\ task \in Tasks
    /\ last_completed \in Completions
    /\ pc = "idle"
    /\ next_due = 0
    /\ shift_row = NoShiftRow
    /\ resp = NoResponse
    /\ m_args = NoMatcherArgs
    /\ m_out = NoMatcherOut
    /\ previous_status = NoStatus

\* get_tasks, lines 630-639: the loop body up to calculate_next_due
get_tasks_due ==
    /\ pc = "idle"
    /\ LET due == calculate_next_due(now, shift_config, last_completed,
                      task.interval_days, task.interval_type, task.assigned_shift)
       IN  IF due.raised
           THEN /\ pc' = "done"
                /\ next_due' = 0
                /\ resp' = DroppedResponse
           ELSE /\ pc' = "due"
                /\ next_due' = due.value
                /\ resp' = NoResponse
    /\ shift_row' = FetchShiftRow(shift_config, task.assigned_shift)
    /\ UNCHANGED <<now, shift_config, task, last_completed, m_args, m_out,
                   previous_status>>

\* get_tasks, lines 642-657: get_task_status and the response entry
get_tasks_status ==
    /\ pc = "due"
    /\ LET st == get_task_status(now, shift_config, next_due, last_completed,
                     task.interval_type, task.assigned_shift)
       IN  resp' = IF st.raised THEN DroppedResponse
                   ELSE ListedResponse(next_due, st.value)
    /\ pc' = "done"
    /\ UNCHANGED <<now, shift_config, task, last_completed, next_due, shift_row,
                   m_args, m_out, previous_status>>

\* get_active_shift, lines 995-1064
get_active_shift ==
    /\ pc = "idle"
    /\ resp' \in get_active_shift_responses(now, shift_config)
    /\ UNCHANGED <<now, shift_config, task, last_completed, pc, next_due, shift_row,
                   m_args, m_out, previous_status>>

Next ==
    \/ get_tasks_due
    \/ get_tasks_status

Spec == Init /\ [][Next]_vars
-----------------------------------------------------------------------------
(* The task listing and the active-shift endpoint, with import_system_data *)
(* rewriting table shift_config                                            *)

\* lines 1455-1466: INSERT OR REPLACE on the UNIQUE shift_name
UpsertShift(cfg, row) == {r \in cfg : r.shift_name # row.shift_name} \cup {row}

RECURSIVE ImportShifts(_, _)
\* lines 1453-1469: the loop over import_data['shifts']
ImportShifts(cfg, rows) ==
    IF rows = <<>> THEN cfg
    ELSE ImportShifts(UpsertShift(cfg, Head(rows)), Tail(rows))

\* one shift of an import file, lines 1460-1465: active_days defaults to '',
\* display_order to 0, active to 1
ImportedRow(name, start, end, days) == ShiftRow(name, start, end, days, 0, 1)

\* import files: a shift E without active_days, with a day name WEEK_IDX
\* does not know, with a start time written "0630", with a start time
\* written "25:00", and a file that switches the four default shifts off
ImportFiles ==
    { << ImportedRow("E", <<6, 0>>, <<14, 0>>, <<>>) >>,
      << ImportedRow("E", <<6, 0>>, <<14, 0>>, <<"Mon", "Tues">>) >>,
      << ImportedRow("E", <<630>>, <<14, 0>>, DayNames) >>,
      << ImportedRow("E", <<25, 0>>, <<14, 0>>, DayNames) >>,
      << ShiftRow("A", <<4, 30>>, <<15, 30>>, <<"Mon", "Tue", "Wed", "Thu">>, 1, 0),
         ShiftRow("B", <<16, 30>>, <<3, 30>>, <<"Mon", "Tue", "Wed", "Thu">>, 2, 0),
         ShiftRow("C", <<5, 0>>, <<17, 0>>, <<"Fri", "Sat", "Sun">>, 3, 0),
         ShiftRow("D", <<17, 0>>, <<5, 0>>, <<"Fri", "Sat", "Sun">>, 4, 0) >> }

\* lines 1476-1480
ImportResponse ==
    [handler |-> "import_system_data", listed |-> FALSE, next_due |-> 0,
     status |-> "Import completed successfully", shift |-> "", note |-> NoNote]

\* import_system_data, lines 1376-1484, for a file without tasks and users
import_system_data ==
    /\ \E file \in ImportFiles : shift_config' = ImportShifts(shift_config, file)
    /\ resp' = ImportResponse
    /\ UNCHANGED <<now, task, last_completed, pc, next_due, shift_row, m_args, m_out,
                   previous_status>>

ImportClockTimes ==
    {HMS(2, 0, 0), HMS(4, 0, 0), HMS(4, 30, 0), HMS(10, 0, 0), HMS(20, 0, 0)}

ImportClocks == {Days(d) + t : d \in 0..MaxDay, t \in ImportClockTimes}

ImportCompletions ==
    {NoCompletion, Unparseable}
        \cup {FormatSeconds(Days(d) + HMS(10, 0, 0)) : d \in 0..MaxCompletionDay}

ImportTasks ==
    {TaskRow(ty, 1, sh) :
        ty \in {"start_shift_daily", "end_shift_daily", "start_shift_weekly",
                "end_shift_weekly", "monthly"},
        sh \in {"", "A", "E"}}

InitImport ==
    /\ now \in ImportClocks
    /\ shift_config = default_shifts
    /\ task \in ImportTasks
    /\ last_completed \in ImportCompletions
    /\ pc = "idle"
    /\ next_due = 0
    /\ shift_row = NoShiftRow
    /\ resp = NoResponse
    /\ m_args = NoMatcherArgs
    /\ m_out = NoMatcherOut
    /\ previous_status = NoStatus

NextImport ==
    \/ import_system_data
    \/ get_tasks_due
    \/ get_tasks_status
    \/ get_active_shift

SpecImport == InitImport /\ [][NextImport]_vars

-----------------------------------------------------------------------------
(* The period matcher on its own arguments                                  *)

MaxMatcherDay == 8

MatcherTimes ==
    {HMS(0, 0, 0), HMS(2, 0, 0), HMS(3, 30, 0), HMS(4, 0, 0), HMS(5, 0, 0),
     HMS(6, 0, 0), HMS(10, 0, 0), HMS(16, 30, 0), HMS(17, 0, 0), HMS(23, 0, 0)}

MatcherInstants == {Days(d) + t : d \in 0..MaxMatcherDay, t \in MatcherTimes}

Schedule(days, start, end) ==
    [shift_days |-> WeekIdxList(days).value,
     start_time |-> StrptimeHM(start).value, end_time |-> StrptimeHM(end).value]

\* shift_days, start_time, end_time as lines 428-430 read them from a row:
\* the default shifts A, B and D, D on Friday only, B on Monday only, an
\* overnight shift on Wednesday and Monday, listed in that order, and an
\* overnight shift on Sunday and Monday
MatcherSchedules ==
    { Schedule(<<"Mon", "Tue", "Wed", "Thu">>, <<4, 30>>, <<15, 30>>),
      Schedule(<<"Mon", "Tue", "Wed", "Thu">>, <<16, 30>>, <<3, 30>>),
      Schedule(<<"Fri", "Sat", "Sun">>, <<17, 0>>, <<5, 0>>),
      Schedule(<<"Fri">>, <<17, 0>>, <<5, 0>>),
      Schedule(<<"Mon">>, <<16, 30>>, <<3, 30>>),
      Schedule(<<"Wed", "Mon">>, <<17, 0>>, <<5, 0>>),
      Schedule(<<"Sun", "Mon">>, <<17, 0>>, <<5, 0>>) }

InitMatcher ==
    /\ m_args \in {[completion_time |-> a, current_time |-> b,
                    shift_days |-> s.shift_days, start_time |-> s.start_time,
                    end_time |-> s.end_time] :
                       a \in MatcherInstants, b \in MatcherInstants,
                       s \in MatcherSchedules}
    /\ m_out = NoMatcherOut
    /\ previous_status = NoStatus
    /\ now = 0
    /\ shift_config = default_shifts
    /\ task = TaskRow("start_shift_daily", 1, "")
    /\ last_completed = NoCompletion
    /\ pc = "idle"
    /\ next_due = 0
    /\ shift_row = NoShiftRow
    /\ resp = NoResponse

\* lines 434, 438, 493 and 494: both matchers called on the same arguments,
\* with the two week starts is_same_shift_week compares
match_period ==
    /\ ~m_out.called
    /\ m_out' = [called |-> TRUE,
                 same_occurrence |->
                    is_same_shift_occurrence(m_args.completion_time, m_args.current_time,
                        m_args.shift_days, m_args.start_time, m_args.end_time),
                 same_week |->
                    is_same_shift_week(m_args.completion_time, m_args.current_time,
                        m_args.shift_days, m_args.start_time, m_args.end_time),
                 completion_week_start |->
                    get_shift_week_start(m_args.completion_time,
                        m_args.shift_days, m_args.start_time, m_args.end_time),
                 current_week_start |->
                    get_shift_week_start(m_args.current_time,
                        m_args.shift_days, m_args.start_time, m_args.end_time)]
    /\ UNCHANGED <<now, shift_config, task, last_completed, pc, next_due, shift_row,
                   resp, m_args, previous_status>>

NextMatcher == match_period

SpecMatcher == InitMatcher /\ [][NextMatcher]_vars
-----------------------------------------------------------------------------
(* The task listing on a table that imports have added shifts to           *)

\* the default rows and three imported ones: F, overnight on Friday only;
\* W, overnight on Wednesday and Monday, listed in that order; S, a day
\* shift on Sunday only
imported_shifts ==
    ImportShifts(default_shifts,
        << ImportedRow("F", <<17, 0>>, <<5, 0>>, <<"Fri">>),
           ImportedRow("W", <<17, 0>>, <<5, 0>>, <<"Wed", "Mon">>),
           ImportedRow("S", <<6, 0>>, <<14, 0>>, <<"Sun">>) >>)

ScheduleTasks ==
    {TaskRow(ty, 1, sh) :
        ty \in {"start_shift_daily", "end_shift_daily", "start_shift_weekly",
                "end_shift_weekly"},
        sh \in {"", "A", "B", "D", "F", "W", "S", "X"}}
        \cup {TaskRow("monthly", d, sh) : d \in {0, 3}, sh \in {"", "A"}}

\* a task never completed at any clock reading, and a task with a stored
\* completion listed on the morning of the last day
InitSchedules ==
    /\ \/ now \in Clocks /\ last_completed = NoCompletion
       \/ now = Days(MaxDay) + HMS(10, 0, 0) /\ last_completed \in Completions
    /\ shift_config = imported_shifts
    /\ task \in ScheduleTasks
    /\ pc = "idle"
    /\ next_due = 0
    /\ shift_row = NoShiftRow
    /\ resp = NoResponse
    /\ m_args = NoMatcherArgs
    /\ m_out = NoMatcherOut
    /\ previous_status = NoStatus

NextSchedules ==
    \/ get_tasks_due
    \/ get_tasks_status

SpecSchedules == InitSchedules /\ [][NextSchedules]_vars
-----------------------------------------------------------------------------
(* The shift endpoints of an administrator                                  *)

\* jsonify({'error': ...}), 403
ForbiddenResponse(handler, error) ==
    [handler |-> handler, listed |-> FALSE, next_due |-> 0,
     status |-> "403", shift |-> "", note |-> error]

\* the ids the rows of init_db carry
ShiftIds == 1..Cardinality(default_shifts)

\* POST /api/shifts, lines 967-971: the request body is not read
create_shift ==
    /\ resp' = ForbiddenResponse("create_shift",
                    "Shifts are hardcoded and cannot be modified")
    /\ UNCHANGED <<now, shift_config, task, last_completed, pc, next_due, shift_row,
                   m_args, m_out, previous_status>>

\* PUT /api/shifts/<shift_id>, lines 973-977
update_shift ==
    /\ \E shift_id \in ShiftIds :
          resp' = ForbiddenResponse("update_shift",
                      "Shifts are hardcoded and cannot be modified")
    /\ UNCHANGED <<now, shift_config, task, last_completed, pc, next_due, shift_row,
                   m_args, m_out, previous_status>>

\* DELETE /api/shifts/<shift_id>, lines 979-983
delete_shift ==
    /\ \E shift_id \in ShiftIds :
          resp' = ForbiddenResponse("delete_shift",
                      "Shifts are hardcoded and cannot be deleted")
    /\ UNCHANGED <<now, shift_config, task, last_completed, pc, next_due, shift_row,
                   m_args, m_out, previous_status>>

\* a running server with the default shifts and one task of shift A
InitShiftApi ==
    /\ now \in ImportClocks
    /\ shift_config = default_shifts
    /\ task = TaskRow("start_shift_daily", 1, "A")
    /\ last_completed = NoCompletion
    /\ pc = "idle"
    /\ next_due = 0
    /\ shift_row = NoShiftRow
    /\ resp = NoResponse
    /\ m_args = NoMatcherArgs
    /\ m_out = NoMatcherOut
    /\ previous_status = NoStatus

NextShiftApi ==
    \/ create_shift
    \/ update_shift
    \/ delete_shift
    \/ import_system_data
    \/ get_active_shift
    \/ get_tasks_due
    \/ get_tasks_status

SpecShiftApi == InitShiftApi /\ [][NextShiftApi]_vars
-----------------------------------------------------------------------------
(* The clock moving under the task listing and the run-permissive endpoint *)

\* seconds the clock can pass between two reads of one request
MaxTick == 1

\* the first instant of Clocks after t
ClockAfter(t) ==
    LET later == {c \in ClockTimes : c > TimeOf(t)}
    IN  IF later = {} THEN Days(DateOf(t) + 1)
        ELSE Days(DateOf(t)) + (CHOOSE c \in later : \A d \in later : c <= d)

\* completions the server recorded in the morning or in the evening of a day
ClockCompletions ==
    {FormatSeconds(Days(d) + t) : d \in 0..MaxCompletionDay,
                                  t \in {HMS(10, 0, 0), HMS(20, 0, 0)}}

ClockTasks ==
    {TaskRow(ty, 1, sh) :
        ty \in {"start_shift_daily", "end_shift_daily", "start_shift_weekly",
                "end_shift_weekly"},
        sh \in {"", "A", "D", "X"}}
        \cup {TaskRow("monthly", 3, sh) : sh \in {"", "A"}}

\* lines 1108-1111, 1113 and 1118
PermissiveResponse(run_permissive, note) ==
    [handler |-> "ignition_run_permissive", listed |-> FALSE, next_due |-> 0,
     status |-> IF run_permissive THEN "run_permissive: true"
                ELSE "run_permissive: false",
     shift |-> "", note |-> note]

\* ignition_run_permissive, lines 1083-1105: the query for the high-priority
\* tasks of the shift and calculate_next_due for the task, which is one
ignition_due ==
    /\ pc = "idle"
    /\ \E shift \in {"A", "D", "X"} :
          IF task.assigned_shift \notin {shift, ""}
          THEN /\ pc' = "done"
               /\ resp' = PermissiveResponse(TRUE, NoNote)
               /\ UNCHANGED <<next_due, shift_row>>
          ELSE LET due == calculate_next_due(now, shift_config, last_completed,
                              task.interval_days, task.interval_type,
                              task.assigned_shift)
               IN  /\ IF due.raised
                      THEN /\ pc' = "done"
                           /\ next_due' = 0
                           /\ resp' = PermissiveResponse(FALSE, "error")
                      ELSE /\ pc' = "permissive"
                           /\ next_due' = due.value
                           /\ resp' = NoResponse
                   /\ shift_row' = FetchShiftRow(shift_config, task.assigned_shift)
    /\ UNCHANGED <<now, shift_config, task, last_completed, m_args, m_out,
                   previous_status>>

\* ignition_run_permissive, lines 1107-1118: get_task_status and the answer
ignition_status ==
    /\ pc = "permissive"
    /\ LET st == get_task_status(now, shift_config, next_due, last_completed,
                     task.interval_type, task.assigned_shift)
       IN  resp' = IF st.raised THEN PermissiveResponse(FALSE, "error")
                   ELSE IF st.value = "overdue"
                        THEN PermissiveResponse(FALSE, "overdue")
                        ELSE PermissiveResponse(TRUE, NoNote)
    /\ pc' = "done"
    /\ UNCHANGED <<now, shift_config, task, last_completed, next_due, shift_row,
                   m_args, m_out, previous_status>>

\* datetime.now() of line 385 returns a later instant than the one of line 261
clock_tick ==
    /\ pc \in {"due", "permissive"}
    /\ \E k \in 1..MaxTick : now + 1 - k \in Clocks
    /\ now' = now + 1
    /\ UNCHANGED <<shift_config, task, last_completed, pc, next_due, shift_row, resp,
                   m_args, m_out, previous_status>>

\* the clock moves on to the next request; the status a listing showed is
\* kept to compare the next listing with
clock_advance ==
    /\ pc \in {"idle", "done"}
    /\ ClockAfter(now) \in Clocks
    /\ now' = ClockAfter(now)
    /\ pc' = "idle"
    /\ previous_status' = IF pc = "done" /\ resp.handler = "get_tasks" /\ resp.listed
                          THEN resp.status
                          ELSE previous_status
    /\ UNCHANGED <<shift_config, task, last_completed, next_due, shift_row, resp,
                   m_args, m_out>>

\* a task never completed at the first instant, or a task whose completion
\* has just been recorded
InitClock ==
    /\ \/ now = Days(0) /\ last_completed = NoCompletion
       \/ \E c \in ClockCompletions :
             /\ last_completed = c
             /\ now = ParseCompleted(c).value
    /\ shift_config = default_shifts
    /\ task \in ClockTasks
    /\ pc = "idle"
    /\ next_due = 0
    /\ shift_row = NoShiftRow
    /\ resp = NoResponse
    /\ m_args = NoMatcherArgs
    /\ m_out = NoMatcherOut
    /\ previous_status = NoStatus

NextClock ==
    \/ get_tasks_due
    \/ get_tasks_status
    \/ ignition_due
    \/ ignition_status
    \/ clock_tick
    \/ clock_advance

SpecClock == InitClock /\ [][NextClock]_vars
-----------------------------------------------------------------------------
(* Properties                                                               *)

ShiftIntervalTypes ==
    {"start_shift_daily", "start_shift_weekly", "end_shift_daily", "end_shift_weekly"}

\* the instant a stored completion text denotes, read field by field
StampInstant(c) ==
    Days(c.day) + HMS(c.hh, c.mm, IF c.ss < 0 THEN 0 ELSE c.ss)

\* the instant a due date is computed from: the last completion when it is
\* present and parseable, otherwise now
ClaimRef == IF last_completed.kind = "stamp" THEN StampInstant(last_completed) ELSE now

\* C1: for the four shift-based interval types, every shift of the table (or
\* no shift) and every reference instant, calculate_next_due returns an
\* instant strictly greater than the reference instant.
C1_DueAfterReference ==
    (pc # "idle" /\ task.interval_type \in ShiftIntervalTypes)
        => (pc = "due" \/ resp.listed) /\ next_due > ClaimRef

\* C1 witness: a weekly task of shift A completed on Monday at 04:30:00, the
\* very instant of the candidate, is due one week later.
C1_Witness ==
    /\ pc = "due"
    /\ task.interval_type = "start_shift_weekly"
    /\ task.assigned_shift = "A"
    /\ last_completed = FormatSeconds(HMS(4, 30, 0))
    /\ next_due = Days(7) + HMS(4, 30, 0)

\* C7: when the status is not "completed" (and it never is without a
\* completion record), it is "overdue" iff now > next_due, "due" iff
\* 0 <= next_due - now < 24 hours and "upcoming" iff next_due - now >= 24 hours.
C7_StandardStatus ==
    (pc = "done" /\ resp.listed)
        => /\ last_completed = NoCompletion => resp.status # "completed"
           /\ resp.status # "completed" =>
                /\ resp.status \in {"overdue", "due", "upcoming"}
                /\ resp.status = "overdue" <=> now > resp.next_due
                /\ resp.status = "due" <=>
                      (0 <= resp.next_due - now /\ resp.next_due - now < Days(1))
                /\ resp.status = "upcoming" <=> resp.next_due - now >= Days(1)

\* C7 witness: a task evaluated at the exact due instant is "due".
C7_Witness ==
    /\ pc = "done"
    /\ resp.listed
    /\ resp.next_due = now
    /\ resp.status = "due"

\* C10: for the four shift-based interval types, calculate_next_due with an
\* unparseable last completion does not fail and returns exactly the instant
\* it returns when there is no last completion.
C10_UnparseableAsAbsent ==
    (pc # "idle" /\ last_completed = Unparseable
        /\ task.interval_type \in ShiftIntervalTypes)
        => /\ pc = "due" \/ resp.listed
           /\ Return(next_due) =
                 calculate_next_due(now, shift_config, NoCompletion,
                     task.interval_days, task.interval_type, task.assigned_shift)

\* C10 witness: the due instant of a task of the overnight shift B whose
\* last completion does not parse has been computed.
C10_Witness ==
    /\ pc = "due"
    /\ last_completed = Unparseable
    /\ task.interval_type = "end_shift_weekly"
    /\ task.assigned_shift = "B"
    /\ next_due > now

\* An occurrence of a shift is anchored at a date d whose weekday is active:
\* it runs from start_time on d to end_time, on d + 1 when the shift is
\* overnight.
Overnight(a) == a.end_time < a.start_time

OccurrenceStart(a, d) == Days(d) + a.start_time

OccurrenceEnd(a, d) == Days(IF Overnight(a) THEN d + 1 ELSE d) + a.end_time

InOccurrence(a, d, t) ==
    /\ d % 7 \in SeqToSet(a.shift_days)
    /\ OccurrenceStart(a, d) <= t
    /\ t < OccurrenceEnd(a, d)

\* the anchor dates of the occurrences an instant lies in
OccurrencesOf(a, t) == {d \in DateOf(t) - 1 .. DateOf(t) : InOccurrence(a, d, t)}

\* C3: for an overnight shift, a completion before midnight inside an
\* occurrence and a reference after midnight, before end_time, in that same
\* occurrence are the same occurrence, also when the day after midnight is
\* not an active weekday.  Stated as the claim; the code violates it.
C3_OvernightTailSameOccurrence ==
    (/\ m_out.called
     /\ Overnight(m_args)
     /\ \E d \in OccurrencesOf(m_args, m_args.completion_time) :
           /\ DateOf(m_args.completion_time) = d
           /\ DateOf(m_args.current_time) = d + 1
           /\ InOccurrence(m_args, d, m_args.current_time))
        => m_out.same_occurrence

\* C4: is_same_shift_occurrence is false whenever the completion instant or
\* the reference instant lies outside every occurrence window of the shift.
\* Stated as the claim; the code violates it.
C4_OutsideWindowNeverMatches ==
    (/\ m_out.called
     /\ \/ OccurrencesOf(m_args, m_args.completion_time) = {}
        \/ OccurrencesOf(m_args, m_args.current_time) = {})
        => ~m_out.same_occurrence

\* C5: is_same_shift_occurrence(t, t, shift) is true for every instant t
\* inside an occurrence window, the after-midnight tail of an overnight
\* occurrence included.  Stated as the claim; the code violates it.
C5_ReflexiveInsideWindow ==
    (/\ m_out.called
     /\ m_args.completion_time = m_args.current_time
     /\ OccurrencesOf(m_args, m_args.current_time) # {})
        => m_out.same_occurrence

\* C6: for an overnight shift, an instant on the first active weekday before
\* start_time resolves to the week start 7 days before its date, an instant
\* on the same date at or after start_time resolves to that date, and the two
\* are not in the same shift week.
C6_FirstDayTailIsPreviousWeek ==
    (/\ m_out.called
     /\ Overnight(m_args)
     /\ DateOf(m_args.completion_time) = DateOf(m_args.current_time)
     /\ \A i \in 1..Len(m_args.shift_days) :
           WeekdayOf(m_args.completion_time) <= m_args.shift_days[i]
     /\ WeekdayOf(m_args.completion_time) \in SeqToSet(m_args.shift_days)
     /\ TimeOf(m_args.completion_time) < m_args.start_time
     /\ TimeOf(m_args.current_time) >= m_args.start_time)
        => /\ m_out.completion_week_start = DateOf(m_args.completion_time) - 7
           /\ m_out.current_week_start = DateOf(m_args.current_time)
           /\ ~m_out.same_week

\* C6 witness: the Monday-only shift 16:30-03:30 with a completion on Monday
\* of the second week at 02:00 and a reference that Monday at 17:00.
C6_Witness ==
    /\ m_out.called
    /\ m_args.shift_days = <<0>>
    /\ Overnight(m_args)
    /\ m_args.completion_time = Days(7) + HMS(2, 0, 0)
    /\ m_args.current_time = Days(7) + HMS(17, 0, 0)
    /\ m_out.completion_week_start = 0
    /\ m_out.current_week_start = 7
    /\ ~m_out.same_week

\* the shift week of an instant: the 7-day periods anchored at the earliest
\* active weekday, at 00:00 for a same-day shift and at start_time for an
\* overnight shift
ShiftWeekOf(a, t) ==
    (t - Days(SeqMin(a.shift_days)) - (IF Overnight(a) THEN a.start_time ELSE 0))
        \div Days(7)

\* the schedule of the task's assigned shift
AssignedSchedule ==
    LET row == GetShiftRow(shift_config, task.assigned_shift)
    IN  Schedule(row.active_days, row.start_time, row.end_time)

\* C2: when the last completion lies in the same occurrence (daily types) or
\* the same shift week (weekly types) of the assigned shift as now, the
\* status is "completed", whatever next_due is.  Stated as the claim; the
\* code violates it.
C2_CompletedOverridesOverdue ==
    (/\ pc = "done"
     /\ resp.listed
     /\ last_completed.kind = "stamp"
     /\ HasShiftRow(shift_config, task.assigned_shift)
     /\ \/ /\ task.interval_type \in {"start_shift_daily", "end_shift_daily"}
           /\ OccurrencesOf(AssignedSchedule, StampInstant(last_completed))
                 \cap OccurrencesOf(AssignedSchedule, now) # {}
        \/ /\ task.interval_type \in {"start_shift_weekly", "end_shift_weekly"}
           /\ ShiftWeekOf(AssignedSchedule, StampInstant(last_completed))
                 = ShiftWeekOf(AssignedSchedule, now))
        => resp.status = "completed"

\* C8: calculate_next_due and get_task_status return for every stored shift
\* configuration, so that no task is left out of a listing.  Stated as the
\* claim; the code violates it.
C8_NoTaskDropped ==
    (pc = "done" /\ resp.handler = "get_tasks") => resp.listed

\* the weekday and time window of a shift row hold of an instant
InWindowOf(row, t) ==
    /\ \E i \in 1..Len(row.active_days) :
          row.active_days[i] = DayNames[((t \div Days(1)) % 7) + 1]
    /\ Len(row.start_time) >= 2
    /\ Len(row.end_time) >= 2
    /\ LET s == HMS(row.start_time[1], row.start_time[2], 0)
           e == HMS(row.end_time[1], row.end_time[2], 0)
           tod == t % Days(1)
       IN  IF s < e THEN s <= tod /\ tod < e ELSE tod >= s \/ tod < e

NextMidnightOf(ref, d) ==
    CHOOSE t \in {Days(DateOf(ref) + i) : i \in 0..7} :
        /\ t > ref
        /\ WeekdayOf(t) = d
        /\ \A i \in 0..7 :
              LET u == Days(DateOf(ref) + i)
              IN  (u > ref /\ WeekdayOf(u) = d) => t <= u

\* what the all-week shift with start = end = 00:00 gives: the next
\* midnight for the daily types, the next Monday 00:00 and the next Sunday
\* 00:00 for the weekly types
VirtualShiftDue(ref, interval_type) ==
    CASE interval_type \in {"start_shift_daily", "end_shift_daily"} ->
            Days(DateOf(ref) + 1)
      [] interval_type = "start_shift_weekly" -> NextMidnightOf(ref, 0)
      [] interval_type = "end_shift_weekly" -> NextMidnightOf(ref, 6)

\* C11: calculate_next_due with an assigned shift name that has no active
\* row (unknown or deactivated) returns exactly the instant it returns with
\* no assigned shift, for every interval type and reference instant: the
\* instant of the shift with all 7 weekdays active and start = end = 00:00.
C11_UnknownShiftAsNoShift ==
    [][(/\ get_tasks_due
        /\ task.assigned_shift # ""
        /\ ~HasShiftRow(shift_config, task.assigned_shift))
          => /\ pc' = "due"
             /\ Return(next_due') =
                   calculate_next_due(now, shift_config, last_completed,
                       task.interval_days, task.interval_type, "")
             /\ task.interval_type \in ShiftIntervalTypes
                   => next_due' = VirtualShiftDue(ClaimRef, task.interval_type)]_vars

\* C11 witness: shift A has been switched off by an import, and a weekly
\* task assigned to A is due on a Sunday at 00:00, not at the 15:30 of A.
C11_Witness ==
    /\ pc = "due"
    /\ task.assigned_shift = "A"
    /\ task.interval_type = "end_shift_weekly"
    /\ \E r \in shift_config : r.shift_name = "A" /\ r.active = 0
    /\ shift_row = NoShiftRow
    /\ WeekdayOf(next_due) = 6
    /\ TimeOf(next_due) = 0

\* C12: within one task-listing request the due instant and the status of a
\* task are computed against the same shift configuration, also when an
\* import replaces shift rows meanwhile: whenever get_task_status looks the
\* assigned shift up, it finds the row calculate_next_due found.  Stated as
\* the claim; the code violates it.
C12_OneShiftConfigurationPerRequest ==
    [][(/\ get_tasks_status
        /\ task.assigned_shift # ""
        /\ last_completed.kind = "stamp")
          => FetchShiftRow(shift_config, task.assigned_shift) = shift_row]_vars

\* C13: the shift configuration is never changed after initialization:
\* create_shift, update_shift and delete_shift answer 403 and leave the
\* table as it is, and no other operation inserts, replaces or removes a
\* shift row.  Stated as the claim; the code violates it.
C13_ShiftConfigNeverChanges ==
    [][/\ shift_config' = shift_config
       /\ (create_shift \/ update_shift \/ delete_shift) => resp'.status = "403"]_vars

ClaimSchedule ==
    IF HasShiftRow(shift_config, task.assigned_shift) THEN AssignedSchedule
    ELSE [shift_days |-> <<0, 1, 2, 3, 4, 5, 6>>, start_time |-> 0, end_time |-> 0]

\* the smallest offset in 1..7 whose weekday is active
NextActiveOffset(ref, a) ==
    CHOOSE i \in 1..7 :
        /\ (WeekdayOf(ref) + i) % 7 \in SeqToSet(a.shift_days)
        /\ \A j \in 1..(i - 1) : (WeekdayOf(ref) + j) % 7 \notin SeqToSet(a.shift_days)

\* the due instant of the task, had it the interval type ty
DueOfType(ty) ==
    calculate_next_due(now, shift_config, last_completed, task.interval_days,
        ty, task.assigned_shift).value

\* C15: for start_shift_daily and end_shift_daily the due instant lies on
\* the date ref.date + i, i the smallest offset in 1..7 whose weekday is an
\* active weekday of the shift, at start_time (start_shift_daily) or
\* end_time (end_shift_daily) with seconds zero; the two types give the same
\* date, and never the date of ref.
C15_DailyNextActiveDate ==
    (pc # "idle" /\ task.interval_type \in {"start_shift_daily", "end_shift_daily"})
        => LET a == ClaimSchedule
               i == NextActiveOffset(ClaimRef, a)
           IN  /\ DateOf(next_due) = DateOf(ClaimRef) + i
               /\ TimeOf(next_due) = IF task.interval_type = "start_shift_daily"
                                      THEN a.start_time ELSE a.end_time
               /\ TimeOf(next_due) % SecondsPerMinute = 0
               /\ DateOf(next_due) # DateOf(ClaimRef)
               /\ DateOf(DueOfType("start_shift_daily")) = DateOf(next_due)
               /\ DateOf(DueOfType("end_shift_daily")) = DateOf(next_due)

\* C15 witness: a daily task of the Friday-only shift F completed on Friday
\* at 20:00 is due seven days later, on the next Friday at 05:00.
C15_Witness ==
    /\ pc = "due"
    /\ task.interval_type = "end_shift_daily"
    /\ task.assigned_shift = "F"
    /\ last_completed = FormatSeconds(Days(4) + HMS(20, 0, 0))
    /\ next_due = Days(11) + HMS(5, 0, 0)

\* the instant on weekday d at time of day t reached from ref by the fewest
\* whole days, a week later when that instant is not after ref
WeeklyTarget(ref, d, t) ==
    LET candidate == Days(DateOf(ref) + ((d - WeekdayOf(ref)) % 7)) + t
    IN  IF candidate <= ref THEN candidate + Days(7) ELSE candidate

\* t is the earliest instant after ref on weekday d at time of day tod
EarliestAfter(t, ref, d, tod) ==
    /\ t > ref
    /\ WeekdayOf(t) = d
    /\ TimeOf(t) = tod
    /\ \A day \in DateOf(ref) - 1 .. DateOf(ref) + 8 :
          (day % 7 = d /\ Days(day) + tod > ref) => t <= Days(day) + tod

C17_EndWeeklyDue ==
    (pc # "idle" /\ task.interval_type = "end_shift_weekly")
        => LET a == ClaimSchedule
               last == SeqMax(a.shift_days)
           IN  /\ next_due = WeeklyTarget(ClaimRef, last, a.end_time)
               /\ EarliestAfter(next_due, ClaimRef, last, a.end_time)
               /\ ClaimRef < next_due
               /\ next_due <= ClaimRef + Days(7)
               /\ WeekdayOf(next_due) = last

\* C17 witness: a weekly task of shift W (Wednesday and Monday, ending at
\* 05:00) read on a Wednesday at 10:00, after that day's 05:00, is due on
\* the Wednesday of the next week at 05:00.
C17_Witness ==
    /\ pc = "due"
    /\ task.interval_type = "end_shift_weekly"
    /\ task.assigned_shift = "W"
    /\ last_completed = NoCompletion
    /\ now = Days(2) + HMS(10, 0, 0)
    /\ next_due = Days(9) + HMS(5, 0, 0)

\* interval_days, 1 day when it is absent or 0
LegacyDays == IF task.interval_days = 0 THEN 1 ELSE task.interval_days

\* C18: for an interval type that is none of the four shift types,
\* calculate_next_due returns the last completion plus interval_days days
\* (1 day when interval_days is absent or 0) when the last completion is
\* present and parseable, and now in every other case, also when the last
\* completion is present but unparseable.  Stated as the claim; the code
\* violates it.
C18_LegacyDue ==
    (pc # "idle" /\ task.interval_type \notin ShiftIntervalTypes)
        => next_due = IF last_completed.kind = "stamp"
                      THEN StampInstant(last_completed) + Days(LegacyDays)
                      ELSE now

\* C19: for a task with a non-empty assigned shift and a parseable last
\* completion, the status is "completed" iff: with no active row of that
\* name, the completion and now fall on the same calendar date, whatever
\* the interval type; with an active row, is_same_shift_occurrence holds for
\* the daily types and is_same_shift_week for the weekly types, and never
\* for any other interval type.
C19_CompletionCheck ==
    (/\ pc = "done"
     /\ resp.listed
     /\ task.assigned_shift # ""
     /\ last_completed.kind = "stamp")
        => LET c == StampInstant(last_completed)
               a == AssignedSchedule
           IN  resp.status = "completed" <=>
                 IF ~HasShiftRow(shift_config, task.assigned_shift)
                 THEN DateOf(c) = DateOf(now)
                 ELSE IF task.interval_type \in {"start_shift_daily", "end_shift_daily"}
                 THEN is_same_shift_occurrence(c, now, a.shift_days, a.start_time,
                          a.end_time)
                 ELSE IF task.interval_type \in {"start_shift_weekly", "end_shift_weekly"}
                 THEN is_same_shift_week(c, now, a.shift_days, a.start_time, a.end_time)
                 ELSE FALSE

\* C19 witness: a weekly task of the unknown shift X completed at 02:00 is
\* "completed" at 20:00 of that date.
C19_Witness ==
    /\ pc = "done"
    /\ resp.listed
    /\ task.assigned_shift = "X"
    /\ task.interval_type = "end_shift_weekly"
    /\ last_completed = FormatSeconds(Days(DateOf(now)) + HMS(2, 0, 0))
    /\ TimeOf(now) = HMS(20, 0, 0)
    /\ resp.status = "completed"

\* the instant a shift week that starts on date d begins: 00:00 of d for a
\* same-day shift, start_time of d for an overnight shift
ShiftWeekBegin(a, d) == Days(d) + (IF Overnight(a) THEN a.start_time ELSE 0)

\* t lies in the 7-day period that begins on date d
InShiftWeek(a, d, t) ==
    /\ d % 7 = SeqMin(a.shift_days)
    /\ ShiftWeekBegin(a, d) <= t
    /\ t < ShiftWeekBegin(a, d + 7)

\* C20: is_same_shift_week is the equivalence whose classes are the 7-day
\* periods anchored at the least active weekday, from 00:00 of that day for
\* a same-day shift and from start_time of that day for an overnight shift:
\* the week start computed for an instant falls on that weekday, the instant
\* lies in the period beginning there and in no other, and two instants are
\* in the same shift week iff they lie in the same period.
C20_ShiftWeekPartition ==
    m_out.called
        => LET a == m_args
               c == a.completion_time
               n == a.current_time
           IN  /\ m_out.completion_week_start % 7 = SeqMin(a.shift_days)
               /\ m_out.current_week_start % 7 = SeqMin(a.shift_days)
               /\ \A d \in DateOf(c) - 7 .. DateOf(c) + 7 :
                     InShiftWeek(a, d, c) <=> d = m_out.completion_week_start
               /\ \A d \in DateOf(n) - 7 .. DateOf(n) + 7 :
                     InShiftWeek(a, d, n) <=> d = m_out.current_week_start
               /\ m_out.same_week <=> ShiftWeekOf(a, c) = ShiftWeekOf(a, n)
               /\ m_out.same_week <=>
                     \E d \in DateOf(c) - 7 .. DateOf(c) + 7 :
                        InShiftWeek(a, d, c) /\ InShiftWeek(a, d, n)

\* C20 witness: for shift B (Monday to Thursday, 16:30-03:30) Monday 16:30 of
\* the second week and the Tuesday after it at 02:00 are in the shift week
\* that starts on that Monday.
C20_Witness ==
    /\ m_out.called
    /\ m_args.shift_days = <<0, 1, 2, 3>>
    /\ Overnight(m_args)
    /\ m_args.completion_time = Days(7) + HMS(16, 30, 0)
    /\ m_args.current_time = Days(8) + HMS(2, 0, 0)
    /\ m_out.completion_week_start = 7
    /\ m_out.current_week_start = 7
    /\ m_out.same_week

\* the active rows whose weekday and time window hold of now
MatchingRows == {r \in shift_config : r.active = 1 /\ InWindowOf(r, now)}

WellFormedTime(text) ==
    Len(text) = 2 /\ text[1] \in 0..23 /\ text[2] \in 0..59

\* the shift rows whose start and end time strings are well formed
WellFormedRows ==
    {r \in shift_config : WellFormedTime(r.start_time) /\ WellFormedTime(r.end_time)}

\* C22: in get_active_shift a shift whose start or end time string is
\* malformed is skipped as never active: the shift named is a shift the
\* lookup names when the malformed shifts are not configured.  Stated as the
\* claim; the code violates it.
C22_MalformedShiftSkipped ==
    resp.handler = "get_active_shift"
        => resp.shift \in {x.shift : x \in get_active_shift_responses(now, WellFormedRows)}

\* C23: a task never completed, of one of the four shift-based interval
\* types, is never listed "overdue", and the run-permissive endpoint never
\* answers false for it.
C23_NeverCompletedNeverOverdue ==
    (/\ pc = "done"
     /\ last_completed = NoCompletion
     /\ task.interval_type \in ShiftIntervalTypes)
        => /\ resp.handler = "get_tasks" => resp.listed /\ resp.status # "overdue"
           /\ resp.handler = "ignition_run_permissive"
                 => resp = PermissiveResponse(TRUE, NoNote)

\* C24: with a completion stored and not later than now, and the clock
\* advancing from one listing of the task to the next: a task listed
\* "overdue" is listed "overdue" again, a task listed with another status than
\* "completed" is not listed "completed", and a task listed "due" is not
\* listed "upcoming".
C24_StatusOnlyMovesForward ==
    (/\ pc = "done"
     /\ resp.handler = "get_tasks"
     /\ previous_status # NoStatus
     /\ last_completed.kind = "stamp"
     /\ StampInstant(last_completed) <= now)
        => /\ resp.listed
           /\ previous_status = "overdue" => resp.status = "overdue"
           /\ previous_status # "completed" => resp.status # "completed"
           /\ previous_status = "due" => resp.status # "upcoming"

\* a task of shift A completed on Monday morning, listed "due" on Tuesday
\* before the shift and "overdue" after it
C24_Witness ==
    /\ pc = "done"
    /\ resp.handler = "get_tasks"
    /\ task = TaskRow("end_shift_daily", 1, "A")
    /\ last_completed = FormatSeconds(Days(0) + HMS(10, 0, 0))
    /\ previous_status = "due"
    /\ resp.status = "overdue"
    /\ now >= Days(1) + HMS(16, 30, 0)

\* C25: a task without an assigned shift is listed, and its status is
\* "overdue", "due" or "upcoming", never "completed", whatever its interval
\* type and last completion, a completion at the instant of the listing
\* included.
C25_NoShiftNeverCompleted ==
    (pc = "done" /\ task.assigned_shift = "")
        => /\ resp.listed
           /\ resp.status \in {"overdue", "due", "upcoming"}

\* a daily task without a shift, listed at the second it was completed
C25_Witness ==
    /\ pc = "done"
    /\ task = TaskRow("start_shift_daily", 1, "")
    /\ now = Days(2) + HMS(10, 0, 0)
    /\ last_completed = FormatSeconds(now)
    /\ resp = ListedResponse(Days(3), "due")

\* C26: for an overnight shift the instant returned for end_shift_daily is
\* the end of an occurrence of the shift: the day before the returned date is
\* an active weekday of the shift.  Stated as the claim; the code violates it.
C26_OvernightEndClosesOccurrence ==
    (/\ pc # "idle"
     /\ task.interval_type = "end_shift_daily"
     /\ HasShiftRow(shift_config, task.assigned_shift)
     /\ Overnight(AssignedSchedule))
        => /\ WeekdayOf(next_due - Days(1)) \in SeqToSet(AssignedSchedule.shift_days)
           /\ next_due = OccurrenceEnd(AssignedSchedule, DateOf(next_due) - 1)

\* t lies in the occurrence of the row's shift that starts on date d
InRowOccurrence(row, d, t) ==
    /\ \E i \in 1..Len(row.active_days) : row.active_days[i] = DayNames[(d % 7) + 1]
    /\ Len(row.start_time) >= 2
    /\ Len(row.end_time) >= 2
    /\ LET s == HMS(row.start_time[1], row.start_time[2], 0)
           e == HMS(row.end_time[1], row.end_time[2], 0)
       IN  /\ Days(d) + s <= t
           /\ t < (IF s < e THEN Days(d) + e ELSE Days(d + 1) + e)

\* the active rows with an occurrence now lies in
OccurringRows ==
    {r \in shift_config :
        r.active = 1 /\ \E d \in {DateOf(now) - 1, DateOf(now)} : InRowOccurrence(r, d, now)}

\* C27: a shift get_active_shift returns without a note has an occurrence,
\* started on one of its active weekdays, that now lies in; an instant in the
\* tail after midnight goes to a shift only if the day before is an active
\* weekday of it, and goes to a shift also when that day is its last active
\* weekday.  Stated as the claim; the code violates it.
C27_MatchedShiftIsOccurring ==
    resp.handler = "get_active_shift"
        => /\ resp.note = NoNote => \E r \in OccurringRows : r.shift_name = resp.shift
           /\ OccurringRows # {} => resp.note = NoNote

\* C28: for every shift and every pair of instants, is_same_shift_occurrence
\* implies is_same_shift_week.
C28_OccurrenceImpliesWeek ==
    (m_out.called /\ m_out.same_occurrence) => m_out.same_week

\* an occurrence of the Sunday-and-Monday overnight shift that runs from
\* Sunday evening into Monday, the first weekday of the shift
C28_Witness ==
    /\ m_out.called
    /\ m_out.same_occurrence
    /\ m_out.same_week
    /\ m_args.shift_days = <<6, 0>>
    /\ m_args.completion_time = Days(6) + HMS(23, 0, 0)
    /\ m_args.current_time = Days(7) + HMS(2, 0, 0)

\* C29: whenever the status is "completed" for a completion not later than
\* now, now - lastCompletedAt is less than 7 days for a weekly type checked
\* against its shift, and less than 24 hours for a daily type and for the
\* comparison of calendar dates.
C29_CompletedExpires ==
    (/\ pc = "done"
     /\ resp.listed
     /\ resp.status = "completed"
     /\ StampInstant(last_completed) <= now)
        => /\ last_completed.kind = "stamp"
           /\ now - StampInstant(last_completed) <
                  (IF ContainsWeekly(task.interval_type)
                      /\ HasShiftRow(shift_config, task.assigned_shift)
                   THEN Days(7) ELSE Days(1))

\* a weekly task of shift A completed at the first second of Monday is still
\* "completed" at the last second of Sunday
C29_Witness ==
    /\ pc = "done"
    /\ resp.status = "completed"
    /\ task = TaskRow("start_shift_weekly", 7, "A")
    /\ last_completed = FormatSeconds(Days(0))
    /\ now = Days(6) + HMS(23, 59, 59)

\* C30: for every shift with active weekdays, and for no shift, the scan over
\* the offsets 1..7 of start_shift_daily and end_shift_daily returns from
\* inside the loop, so the code after the loop decides nothing: the due
\* instant of end_shift_daily is the same whether that code starts from the
\* first listed active day or from the least one.
C30_ScanAlwaysReturns ==
    (pc # "idle" /\ task.interval_type \in {"start_shift_daily", "end_shift_daily"})
        => LET a == ClaimSchedule
               t == IF task.interval_type = "start_shift_daily"
                    THEN a.start_time ELSE a.end_time
           IN  /\ a.shift_days # <<>>
               /\ ScanHits(ClaimRef, a.shift_days, t) # {}
               /\ \E i \in ScanHits(ClaimRef, a.shift_days, t) :
                      next_due = ReplaceTime(ClaimRef + Days(i), t)
               /\ next_due = DailyDue(ClaimRef, a.shift_days, SeqMin(a.shift_days), t)
               /\ next_due = DailyDue(ClaimRef, a.shift_days, a.shift_days[1], t)

\* a task of shift W, whose first listed day is Wednesday and whose least
\* day is Monday, listed on a Wednesday: the scan returns at offset 5, the
\* next Monday, where the code after the loop would have given the next
\* Wednesday
C30_Witness ==
    /\ pc = "due"
    /\ task = TaskRow("end_shift_daily", 1, "W")
    /\ last_completed = NoCompletion
    /\ now = Days(2) + HMS(10, 0, 0)
    /\ next_due = Days(7) + HMS(5, 0, 0)
    /\ ScanFallback(now, AssignedSchedule.shift_days[1], AssignedSchedule.end_time)
          = Days(9) + HMS(5, 0, 0)

====
